---------------------------- MODULE Spec2Model ----------------------------
(***************************************************************************)
(* Client-side scripts of the GreenSquareCapital listings application:     *)
(*   static/js/listing_stepper.js        edit-listing cascade and StepGate *)
(*   static/js/search_filters.js         search-filter cascade             *)
(*   static/js/pledge_progress.js        debounced pledge estimator        *)
(*   static/js/click_hold_drag_scroll.js drag-to-scroll strip              *)
(*                                                                         *)
(* A string is a sequence of one-character strings, so that trim() and     *)
(* toLowerCase() are computed and not assumed.                             *)
(***************************************************************************)
EXTENDS Naturals, Integers, Sequences, FiniteSets, Bags, TLC

VARIABLES
    \* ---- pure-function harness for sync()
    synDom,         \* selector -> value of the element, or Absent
    synFiles,       \* [img, doc]: the file inputs, NoInput or FileInput(n)
    synUi,          \* what sync() wrote
    synDone         \* sync() has run on synDom

VARIABLES
    \* ---- the edit-listing page and the search page (one form per page view)
    page,           \* "edit" | "search": which script the page loads
    loaded,         \* DOMContentLoaded has run (window.gscEditListingSync is set)
    urls,           \* [counties, outcodes]: the endpoint data attributes are set
    initial,        \* [country, county, outcode]: the values saved with the page
    country,        \* value of #id_country
    county,         \* #id_county: [opts, sel, disabled]
    outcode,        \* #id_postcode_prefix: [opts, sel, disabled]
    fields,         \* the watched fields of steps 1-3: selector -> value
    files,          \* [img, doc]: #id_images and #id_documents
    ui,             \* the step indicators, messages and activation button
    pending,        \* bag of fetches in flight
    last            \* [county, outcode]: how the latest load of each ended

VARIABLE
    unsynced        \* the cascade changed the county or the outcode selector
                    \* and sync() has not run since (kept by the model)

VARIABLES
    \* ---- the pledge estimator
    amountInput,    \* value of the .js-pledge-amount field
    timer,          \* the script's timer variable: a timer id, 0 for null
    timers,         \* the browser's armed timers: {[id, left]}, left in ms
    requests,       \* bag of estimate fetches in flight
    estimate,       \* text of the .js-return-estimate element
    sinceInput,     \* ms since the last input event, capped at the delay
    burstFetches,   \* fetches issued since the current burst of input began
    lastAmount,     \* amount of the fetch issued last
    newest          \* what became of the fetch issued last

VARIABLES
    \* ---- one .dashboard-scroll element
    isDown, startX, startScrollLeft, hasDragged,    \* the closure's variables
    scrollLeft,     \* el.scrollLeft
    dragging,       \* el carries the class is-dragging
    clickResult,    \* what the capture listener did with the last click
    pageX,          \* pageX of the last mouse event on the element
    lastEvent,      \* the event handled last
    gesture         \* the gesture in progress or ended last, as observed

VARIABLES
    \* ---- the login / register page
    present,        \* ids of the page that resolve to an element
    loginType,      \* type attribute of #id_password_login
    loginLabel,     \* textContent of #toggleLoginPassword
    regType1,       \* type attribute of #id_password_register_1
    regType2,       \* type attribute of #id_password_register_2
    regLabel,       \* textContent of #toggleRegisterPasswords
    loginClicks,    \* clicks on #toggleLoginPassword so far (kept by the model)
    regClicks       \* clicks on #toggleRegisterPasswords so far

synVars == <<synDom, synFiles, synUi, synDone>>

toggleVars == <<present, loginType, loginLabel, regType1, regType2, regLabel,
                loginClicks, regClicks>>

pledgeVars == <<amountInput, timer, timers, requests, estimate, sinceInput,
                burstFetches, lastAmount, newest>>

dragVars == <<isDown, startX, startScrollLeft, hasDragged, scrollLeft,
              dragging, clickResult, pageX, lastEvent, gesture>>

formVars == <<page, loaded, urls, initial, country, county, outcode, fields,
              files, ui, pending, last, unsynced>>

vars == <<synVars, formVars, pledgeVars, dragVars, toggleVars>>

-----------------------------------------------------------------------------
(* Strings *)

Blank == <<>>
Absent == <<"null">>            \* getElementById / querySelector returned null

RECURSIVE TrimLeft(_)
TrimLeft(s) == IF s # <<>> /\ Head(s) = " " THEN TrimLeft(Tail(s)) ELSE s

RECURSIVE TrimRight(_)
TrimRight(s) ==
    IF s # <<>> /\ s[Len(s)] = " " THEN TrimRight(SubSeq(s, 1, Len(s) - 1)) ELSE s

\* String.prototype.trim
Trim(s) == TrimRight(TrimLeft(s))

-----------------------------------------------------------------------------
(* StepGate: listing_stepper.js, second IIFE *)

required ==
    [ step1 |-> <<"#id_project_duration_days">>,
      step2 |-> <<"#id_source_use", "#id_target_use">>,
      step3 |-> <<"#id_funding_band", "#id_return_type", "#id_return_band",
                  "#id_duration_days">>,
      step4 |-> <<"#id_country", "#id_county", "#id_postcode_prefix">> ]

watch == required.step1 \o required.step2 \o required.step3 \o required.step4

Range(s) == {s[i] : i \in DOMAIN s}

Watched == Range(watch)

\* hasValue without the trim: it differs on a value of spaces only
hasValueNoTrim(dom, sel) ==
    IF dom[sel] = Absent THEN FALSE ELSE dom[sel] # Blank

\* hasValue(sel): the element exists and its trimmed value is not empty
hasValue(dom, sel) ==
    IF dom[sel] = Absent THEN FALSE ELSE Trim(dom[sel]) # Blank

\* stepOk(selectors): every selector of the group has a value
stepOk(dom, selectors) ==
    \A i \in DOMAIN selectors : hasValue(dom, selectors[i])

NoInput == [present |-> FALSE, n |-> 0]
FileInput(n) == [present |-> TRUE, n |-> n]

\* input?.files?.length || 0
fileCount(input) == IF input.present THEN input.n ELSE 0

\* mediaSelected(): at least one image or document is selected
mediaSelected(inputs) == fileCount(inputs.img) + fileCount(inputs.doc) > 0

PillClasses == {"bg-success", "text-white", "bg-light", "text-dark", "border"}

\* setPill adding the classes without removing the earlier ones
setPillNoRemove(classes, ok) ==
    classes \cup
        (IF ok THEN {"bg-success", "text-white"}
               ELSE {"bg-light", "text-dark", "border"})

\* setPill(el, ok) on the class list of el
setPill(classes, ok) ==
    (classes \ PillClasses) \cup
        (IF ok THEN {"bg-success", "text-white"}
               ELSE {"bg-light", "text-dark", "border"})

MsgAvailable == "Steps 1-5 complete - activation is available."
MsgIncomplete ==
    "Complete steps 1-5 to enable activation. You can save a draft at any time."
Msg6Ready == "Ready to activate - you'll be taken to payment."
Msg6Media == "Upload at least one image or document to complete Step 5."
Msg6Steps == "Complete Steps 1-5 to enable activation."

\* okAll of sync(): steps 1-5 are all complete
okAll(ok) == ok[1] /\ ok[2] /\ ok[3] /\ ok[4] /\ ok[5]

\* The five step predicates sync() computes
stepFlags(dom, inputs) ==
    <<stepOk(dom, required.step1), stepOk(dom, required.step2),
      stepOk(dom, required.step3), stepOk(dom, required.step4),
      mediaSelected(inputs)>>

\* sync(): the stepper pills, the card pills, both messages and the button,
\* written over the previous ui
sync(prev, dom, inputs) ==
    LET ok == stepFlags(dom, inputs)
        all == okAll(ok)
        flag(k) == IF k = 6 THEN all ELSE ok[k]
    IN  [ stepper  |-> [k \in 1..6 |-> setPill(prev.stepper[k], flag(k))],
          cards    |-> [k \in 1..6 |-> setPill(prev.cards[k], flag(k))],
          msg      |-> IF all THEN MsgAvailable ELSE MsgIncomplete,
          msgClass |-> (prev.msgClass \ {"text-success", "text-muted"}) \cup
                           (IF all THEN {"text-success"} ELSE {"text-muted"}),
          msg6     |-> IF all THEN Msg6Ready
                       ELSE IF ~ok[5] THEN Msg6Media ELSE Msg6Steps,
          msg6Class |-> (prev.msg6Class \ {"text-success", "text-muted"}) \cup
                           (IF all THEN {"text-success"} ELSE {"text-muted"}),
          disabled |-> ~all ]

\* The indicators as the template renders them, before any script has run
RenderedUi ==
    [ stepper  |-> [k \in 1..6 |-> {"badge", "bg-light", "text-dark", "border"}],
      cards    |-> [k \in 1..6 |-> {"badge", "bg-light", "text-dark", "border"}],
      msg      |-> "",
      msgClass |-> {"small", "text-muted"},
      msg6     |-> "",
      msg6Class |-> {"small", "text-muted"},
      disabled |-> TRUE ]

\* A pill shows "complete"
Complete(classes) == "bg-success" \in classes

-----------------------------------------------------------------------------
(* The lookup endpoints (the Django views behind counties_url and
   outcodes_url): a fixed gazetteer, looked up case-insensitively *)

UpperCase == <<"C", "E", "G", "K", "N", "P", "T", "W">>
LowerCase == <<"c", "e", "g", "k", "n", "p", "t", "w">>

LowerChar(c) ==
    IF \E i \in DOMAIN UpperCase : UpperCase[i] = c
    THEN LowerCase[CHOOSE i \in DOMAIN UpperCase : UpperCase[i] = c]
    ELSE c

\* String.prototype.toLowerCase
toLowerCase(s) == [i \in DOMAIN s |-> LowerChar(s[i])]

England == <<"E", "n", "g">>
Wales == <<"W", "a", "l">>
Kent == <<"K", "e", "n", "t">>
Gwent == <<"G", "w", "e">>
CT == <<"C", "T">>
NP == <<"N", "P">>

CountryOptions == {England, Wales}

\* GET <counties_url>?country=<key>  ->  { counties: [...] }
ServerCounties(key) ==
    CASE toLowerCase(key) = toLowerCase(England) -> <<Kent>>
      [] toLowerCase(key) = toLowerCase(Wales) -> <<Gwent>>
      [] OTHER -> <<>>

\* GET <outcodes_url>?county=<key>  ->  { outcodes: [...] }
ServerOutcodes(key) ==
    CASE key = Kent -> <<CT>>
      [] key = Gwent -> <<NP>>
      [] OTHER -> <<>>

\* How a fetch can end: a success response with the list, a response whose
\* JSON lacks the list (read as []), or no usable response
Outcomes == {"ok", "empty", "fail"}

Response(r, outcome) ==
    IF outcome # "ok" THEN <<>>
    ELSE IF r.kind = "counties" THEN ServerCounties(r.key)
    ELSE ServerOutcodes(r.key)

-----------------------------------------------------------------------------
(* A <select>: opts are the option values in document order (the
   placeholder's value is Blank), sel the selected index, 0 when no option
   is selected *)

Value(select) == IF select.sel = 0 THEN Blank ELSE select.opts[select.sel]

PlaceholderOnly(select) == select.opts = <<Blank>>

FirstIndex(opts, v) ==
    IF \E i \in DOMAIN opts : opts[i] = v
    THEN CHOOSE i \in DOMAIN opts : opts[i] = v /\ \A j \in 1..(i - 1) : opts[j] # v
    ELSE 0

LastIndex(opts, v) ==
    IF \E i \in DOMAIN opts : opts[i] = v
    THEN CHOOSE i \in DOMAIN opts :
             opts[i] = v /\ \A j \in (i + 1)..Len(opts) : opts[j] # v
    ELSE 0

\* selectEl.value = v
SetValue(select, v) == [select EXCEPT !.sel = FirstIndex(select.opts, v)]

\* setOptions(selectEl, items, placeholder, selectedValue) of listing_stepper.js
setOptions(select, items, selectedValue) ==
    LET fresh == [select EXCEPT !.opts = <<Blank>> \o items, !.sel = 1]
    IN  IF selectedValue # Blank THEN SetValue(fresh, selectedValue) ELSE fresh

\* resetSelect(el, placeholder) of search_filters.js
resetSelect(select) == [select EXCEPT !.opts = <<Blank>>, !.sel = 1]

\* The forEach of search_filters.js: append the items as options, an item
\* equal to the wanted value being appended selected
appendOptions(select, items, selectedValue) ==
    LET opts == select.opts \o items
        hit == selectedValue # Blank /\ \E i \in DOMAIN items : items[i] = selectedValue
    IN  [select EXCEPT !.opts = opts,
                       !.sel = IF hit THEN LastIndex(opts, selectedValue) ELSE @]

-----------------------------------------------------------------------------
(* The page state the handlers work on, as one record *)

Cur ==
    [ country |-> country, county |-> county, outcode |-> outcode,
      fields |-> fields, files |-> files, ui |-> ui, pending |-> pending,
      last |-> last, unsynced |-> unsynced ]

\* What document.querySelector(sel).value gives for the watched selectors
DomOf(d) ==
    [s \in Watched |->
        CASE s = "#id_country" -> d.country
          [] s = "#id_county" -> Value(d.county)
          [] s = "#id_postcode_prefix" -> Value(d.outcode)
          [] OTHER -> d.fields[s]]

\* sync() on the page
runSync(d) ==
    [d EXCEPT !.ui = sync(d.ui, DomOf(d), d.files), !.unsynced = FALSE]

\* The cascade has written the options or the value of a dependent selector
touched(d) == [d EXCEPT !.unsynced = TRUE]

noHook(d, hook) == d

\* window.gscEditListingSync?.()
callHook(d, hook) == IF hook THEN runSync(d) ELSE d

\* A request in flight.  latest: no later load of the same selector has
\* started since (bookkeeping of the model, the scripts keep no such flag)
Request(kind, key, selected, chained) ==
    [kind |-> kind, key |-> key, selected |-> selected, chained |-> chained,
     latest |-> TRUE]

Superseded(r) == [r EXCEPT !.latest = FALSE]

\* A new load of the county selector supersedes every request in flight; a
\* new load of the outcode selector supersedes the outcode requests
Supersede(bag, kinds) ==
    LET rs == BagToSet(bag)
        old(r) == IF r.kind \in kinds THEN Superseded(r) ELSE r
        img == {old(r) : r \in rs}
        count(x) ==
            LET src == {r \in rs : old(r) = x}
                RECURSIVE Sum(_)
                Sum(S) == IF S = {} THEN 0
                          ELSE LET r == CHOOSE r \in S : TRUE
                               IN  CopiesIn(r, bag) + Sum(S \ {r})
            IN  Sum(src)
    IN  [x \in img |-> count(x)]

Issue(d, r) == [d EXCEPT !.pending = @ (+) SetToBag({r})]

-----------------------------------------------------------------------------
(* Edit-listing cascade: listing_stepper.js, first IIFE *)

\* loadOutcodes(selectedOutcode, countyOverride) up to its first await
loadOutcodes(d, selectedOutcode, countyOverride, chained, hook) ==
    LET key == Trim(IF countyOverride # Blank THEN countyOverride
                    ELSE Value(d.county))
        d1 == touched([d EXCEPT !.outcode = setOptions(@, <<>>, Blank),
                                !.pending = Supersede(@, {"outcodes"})])
        d2 == callHook(d1, hook)
    IN  IF key = Blank \/ ~urls.outcodes
        THEN [d2 EXCEPT !.last.outcode = "skipped"]
        ELSE Issue([d2 EXCEPT !.last.outcode = "inflight"],
                   Request("outcodes", key, selectedOutcode, chained))

\* loadCounties(selectedCounty) up to its first await
loadCounties(d, selectedCounty, hook) ==
    LET key == Trim(d.country)
        d1 == touched([d EXCEPT !.county = setOptions(@, <<>>, Blank),
                                !.outcode = setOptions(@, <<>>, Blank),
                                !.pending = Supersede(@, {"counties", "outcodes"}),
                                !.last.outcode = "skipped"])
        d2 == callHook(d1, hook)
    IN  IF key = Blank \/ ~urls.counties
        THEN [d2 EXCEPT !.last.county = "skipped"]
        ELSE Issue([d2 EXCEPT !.last.county = "inflight"],
                   Request("counties", key, selectedCounty, FALSE))

Ended(outcome) == IF outcome = "fail" THEN "failed" ELSE "loaded"

Settle(d, r, outcome) ==
    IF ~r.latest THEN d
    ELSE IF r.kind = "counties" THEN [d EXCEPT !.last.county = Ended(outcome)]
    ELSE [d EXCEPT !.last.outcode = Ended(outcome)]

countiesLoadedNoCascade(d, r, outcome) ==
    IF outcome = "fail" THEN d
    ELSE callHook(touched([d EXCEPT !.county =
                       setOptions(@, Response(r, outcome), r.selected)]), TRUE)

\* loadCounties from the response of its fetch to its end, or to the await
\* of the loadOutcodes call it makes
countiesLoaded(d, r, outcome) ==
    IF outcome = "fail" THEN d
    ELSE
        LET d1 == touched([d EXCEPT !.county =
                       setOptions(@, Response(r, outcome), r.selected)])
            d2 == callHook(d1, TRUE)
            countyNow == Trim(IF r.selected # Blank THEN r.selected
                              ELSE Value(d2.county))
        IN  IF countyNow # Blank
            THEN loadOutcodes(touched([d2 EXCEPT !.county = SetValue(@, countyNow)]),
                              initial.outcode, countyNow, TRUE, TRUE)
            ELSE d2

\* loadOutcodes from the response of its fetch to its end, and the sync of
\* the loadCounties call that awaited it
outcodesLoaded(d, r, outcome) ==
    LET d1 == IF outcome = "fail" THEN d
              ELSE callHook(touched([d EXCEPT !.outcode =
                                setOptions(@, Response(r, outcome), r.selected)]),
                            TRUE)
    IN  IF r.chained THEN callHook(d1, TRUE) ELSE d1

\* The DOMContentLoaded handler without the stepper's initial render
editLoadNoRender(d) ==
    IF initial.country # Blank
    THEN loadCounties(
             [d EXCEPT !.country =
                  IF initial.country \in CountryOptions
                  THEN initial.country ELSE Blank],
             initial.county, FALSE)
    ELSE touched([d EXCEPT !.county = setOptions(@, <<>>, Blank),
                           !.outcode = setOptions(@, <<>>, Blank)])

\* The DOMContentLoaded handler of listing_stepper.js: the cascade's initial
\* hydrate, run before window.gscEditListingSync exists, then the stepper's
\* initial render
editLoad(d) ==
    LET d1 == IF initial.country # Blank
              THEN loadCounties(
                       [d EXCEPT !.country =
                            IF initial.country \in CountryOptions
                            THEN initial.country ELSE Blank],
                       initial.county, FALSE)
              ELSE touched([d EXCEPT !.county = setOptions(@, <<>>, Blank),
                                     !.outcode = setOptions(@, <<>>, Blank)])
    IN  runSync(d1)

-----------------------------------------------------------------------------
(* Search-filter cascade: search_filters.js *)

\* loadOutcodes(countyValue, selectedOutcode) up to its first await
searchLoadOutcodes(d, countyValue, selectedOutcode, chained) ==
    LET d1 == [d EXCEPT !.outcode = [resetSelect(@) EXCEPT !.disabled = TRUE],
                        !.pending = Supersede(@, {"outcodes"})]
    IN  IF countyValue = Blank
        THEN [d1 EXCEPT !.last.outcode = "skipped"]
        ELSE Issue([d1 EXCEPT !.last.outcode = "inflight"],
                   Request("outcodes", countyValue, selectedOutcode, chained))

\* loadCounties(countryValue, selectedCounty) up to its first await
searchLoadCounties(d, countryValue, selectedCounty) ==
    LET d1 == [d EXCEPT !.county = [resetSelect(@) EXCEPT !.disabled = TRUE],
                        !.outcode = [resetSelect(@) EXCEPT !.disabled = TRUE],
                        !.pending = Supersede(@, {"counties", "outcodes"}),
                        !.last.outcode = "skipped"]
    IN  IF countryValue = Blank
        THEN [d1 EXCEPT !.last.county = "skipped"]
        ELSE Issue([d1 EXCEPT !.last.county = "inflight"],
                   Request("counties", toLowerCase(countryValue),
                           selectedCounty, FALSE))

\* loadCounties from the response to its end or to the await of loadOutcodes
searchCountiesLoaded(d, r, outcome) ==
    IF outcome = "fail" THEN d
    ELSE
        LET d1 == [d EXCEPT !.county =
                       [appendOptions(@, Response(r, outcome), r.selected)
                            EXCEPT !.disabled = FALSE]]
        IN  IF r.selected # Blank
            THEN searchLoadOutcodes(d1, r.selected, initial.outcode, TRUE)
            ELSE d1

\* loadOutcodes from the response to its end
searchOutcodesLoaded(d, r, outcome) ==
    IF outcome = "fail" THEN d
    ELSE [d EXCEPT !.outcode =
              [appendOptions(@, Response(r, outcome), r.selected)
                   EXCEPT !.disabled = FALSE]]

\* The DOMContentLoaded handler of search_filters.js; without both endpoint
\* attributes it returns before it registers anything
searchLoad(d) ==
    IF ~(urls.counties /\ urls.outcodes) THEN d
    ELSE IF initial.country # Blank
    THEN searchLoadCounties(
             [d EXCEPT !.country = IF initial.country \in CountryOptions
                                   THEN initial.country ELSE Blank],
             initial.country, initial.county)
    ELSE [d EXCEPT !.county = resetSelect(@), !.outcode = resetSelect(@)]

-----------------------------------------------------------------------------
(* sync() as a pure function of the DOM: inputs drawn at Init *)

MaxDeviations == 2      \* fields that differ from the page's baseline value
MaxFiles == 1           \* files selected in one file input

Filled == <<"5">>
FieldValues == {Blank, <<" ">>, Filled, <<" ", "5", " ">>}
FileStates == {NoInput} \cup {FileInput(n) : n \in 0..MaxFiles}

SynInit ==
    /\ \E base \in {Blank, Filled} :
       \E D \in {S \in SUBSET Watched : Cardinality(S) <= MaxDeviations} :
       \E g \in [D -> FieldValues \cup {Absent}] :
          synDom = [s \in Watched |-> IF s \in D THEN g[s] ELSE base]
    /\ synFiles \in [img : FileStates, doc : FileStates]
    /\ synUi = RenderedUi
    /\ synDone = FALSE

SynIdle ==
    /\ synDom = [s \in Watched |-> Filled]
    /\ synFiles = [img |-> FileInput(0), doc |-> FileInput(0)]
    /\ synUi = RenderedUi
    /\ synDone = FALSE

\* The initial render: sync() runs once on the page as loaded
SynRun ==
    /\ ~synDone
    /\ synUi' = sync(synUi, synDom, synFiles)
    /\ synDone' = TRUE
    /\ UNCHANGED <<synDom, synFiles>>
    /\ UNCHANGED <<formVars, pledgeVars, dragVars, toggleVars>>

-----------------------------------------------------------------------------
(* The edit-listing page and the search page as state machines *)

MaxPending == 2         \* fetches in flight at once

StepFields == Watched \ Range(required.step4)

\* The field of steps 1-3 the user edits in the model
EditedFields == {"#id_target_use"}

RenderedSelect == [opts |-> <<Blank>>, sel |-> 1, disabled |-> FALSE]

NothingSaved == [country |-> Blank, county |-> Blank, outcode |-> Blank]

Saved(c, k, o) == [country |-> c, county |-> k, outcode |-> o]

\* What a page can carry as saved location: nothing, a country alone, a
\* country with a county of it and an outcode of that county or of another
\* one, or a country with a county (and outcode) of another country
SavedStates ==
    { NothingSaved, Saved(England, Blank, Blank), Saved(England, Kent, CT),
      Saved(England, Kent, NP), Saved(England, Gwent, NP) }

UrlConfigs ==
    { [counties |-> TRUE, outcodes |-> TRUE],
      [counties |-> TRUE, outcodes |-> FALSE],
      [counties |-> FALSE, outcodes |-> FALSE] }

FormInit ==
    /\ page \in {"edit", "search"}
    /\ loaded = FALSE
    /\ urls \in UrlConfigs
    /\ initial \in SavedStates
    /\ country = initial.country
    /\ county = RenderedSelect
    /\ outcode = RenderedSelect
    /\ fields = [s \in StepFields |-> IF page = "edit" THEN Filled ELSE Blank]
    /\ files = [img |-> FileInput(0), doc |-> FileInput(0)]
    /\ ui = RenderedUi
    /\ pending = EmptyBag
    /\ last = [county |-> "skipped", outcode |-> "skipped"]
    /\ unsynced = FALSE

FormIdle ==
    /\ page = "search"
    /\ loaded = FALSE
    /\ urls = [counties |-> FALSE, outcodes |-> FALSE]
    /\ initial = NothingSaved
    /\ country = Blank
    /\ county = RenderedSelect
    /\ outcode = RenderedSelect
    /\ fields = [s \in StepFields |-> Blank]
    /\ files = [img |-> FileInput(0), doc |-> FileInput(0)]
    /\ ui = RenderedUi
    /\ pending = EmptyBag
    /\ last = [county |-> "skipped", outcode |-> "skipped"]
    /\ unsynced = FALSE

\* The handler's result becomes the page state
Commit(d) ==
    /\ BagCardinality(d.pending) <= MaxPending
    /\ country' = d.country
    /\ county' = d.county
    /\ outcode' = d.outcode
    /\ fields' = d.fields
    /\ files' = d.files
    /\ ui' = d.ui
    /\ pending' = d.pending
    /\ last' = d.last
    /\ unsynced' = d.unsynced
    /\ UNCHANGED <<page, urls, initial>>
    /\ UNCHANGED <<synVars, pledgeVars, dragVars, toggleVars>>

\* The search script has registered its listeners
SearchActive == page = "search" /\ loaded /\ urls.counties /\ urls.outcodes

EditActive == page = "edit" /\ loaded

EditLoad ==
    /\ page = "edit" /\ ~loaded
    /\ loaded' = TRUE
    /\ Commit(editLoad(Cur))

SearchLoad ==
    /\ page = "search" /\ ~loaded
    /\ loaded' = TRUE
    /\ Commit(searchLoad(Cur))

\* The user picks another country: the select fires input, then change.
\* On the edit page the stepper's input listener, the cascade's change
\* listener and the stepper's change listener run, in that order
EditChangeCountry(v) ==
    /\ EditActive /\ v # country
    /\ UNCHANGED loaded
    /\ Commit(runSync(loadCounties(runSync([Cur EXCEPT !.country = v]),
                                   Blank, TRUE)))

SearchChangeCountry(v) ==
    /\ SearchActive /\ v # country
    /\ UNCHANGED loaded
    /\ Commit(searchLoadCounties([Cur EXCEPT !.country = v], v, Blank))

\* The user picks option i of the county selector
EditChangeCounty(i) ==
    /\ EditActive /\ i \in DOMAIN county.opts /\ i # county.sel
    /\ UNCHANGED loaded
    /\ LET d == runSync([Cur EXCEPT !.county.sel = i])
       IN  Commit(runSync(loadOutcodes(d, Blank, Trim(Value(d.county)),
                                       FALSE, TRUE)))

SearchChangeCounty(i) ==
    /\ SearchActive /\ ~county.disabled
    /\ i \in DOMAIN county.opts /\ i # county.sel
    /\ UNCHANGED loaded
    /\ LET d == [Cur EXCEPT !.county.sel = i]
       IN  Commit(searchLoadOutcodes(d, Value(d.county), Blank, FALSE))

\* The user picks option i of the outcode selector
EditChangeOutcode(i) ==
    /\ EditActive /\ i \in DOMAIN outcode.opts /\ i # outcode.sel
    /\ UNCHANGED loaded
    /\ Commit(runSync(runSync([Cur EXCEPT !.outcode.sel = i])))

SearchChangeOutcode(i) ==
    /\ SearchActive /\ ~outcode.disabled
    /\ i \in DOMAIN outcode.opts /\ i # outcode.sel
    /\ UNCHANGED loaded
    /\ Commit([Cur EXCEPT !.outcode.sel = i])

\* The user edits a watched field of steps 1-3: input (and later change)
EditInput(f, v) ==
    /\ EditActive /\ v # fields[f]
    /\ UNCHANGED loaded
    /\ Commit(runSync([Cur EXCEPT !.fields[f] = v]))

\* The user picks n files in the image or the document input: change
EditSelectFiles(which, n) ==
    /\ EditActive /\ files[which] # FileInput(n)
    /\ UNCHANGED loaded
    /\ Commit(runSync([Cur EXCEPT !.files[which] = FileInput(n)]))

\* A fetch of the edit page ends and the function awaiting it resumes
EditFetchDone(r, outcome) ==
    /\ page = "edit" /\ r \in BagToSet(pending)
    /\ UNCHANGED loaded
    /\ LET d == Settle([Cur EXCEPT !.pending = @ (-) SetToBag({r})], r, outcome)
       IN  Commit(IF r.kind = "counties" THEN countiesLoaded(d, r, outcome)
                  ELSE outcodesLoaded(d, r, outcome))

\* A fetch of the search page ends and the function awaiting it resumes
SearchFetchDone(r, outcome) ==
    /\ page = "search" /\ r \in BagToSet(pending)
    /\ UNCHANGED loaded
    /\ LET d == Settle([Cur EXCEPT !.pending = @ (-) SetToBag({r})], r, outcome)
       IN  Commit(IF r.kind = "counties" THEN searchCountiesLoaded(d, r, outcome)
                  ELSE searchOutcodesLoaded(d, r, outcome))

FormNext ==
    \/ EditLoad
    \/ SearchLoad
    \/ \E v \in CountryOptions \cup {Blank} : EditChangeCountry(v)
    \/ \E v \in CountryOptions \cup {Blank} : SearchChangeCountry(v)
    \/ \E i \in DOMAIN county.opts : EditChangeCounty(i)
    \/ \E i \in DOMAIN county.opts : SearchChangeCounty(i)
    \/ \E i \in DOMAIN outcode.opts : EditChangeOutcode(i)
    \/ \E i \in DOMAIN outcode.opts : SearchChangeOutcode(i)
    \/ \E f \in EditedFields, v \in {Blank, Filled} : EditInput(f, v)
    \/ \E which \in {"img", "doc"}, n \in {0, MaxFiles} : EditSelectFiles(which, n)
    \/ \E r \in BagToSet(pending), outcome \in Outcomes : EditFetchDone(r, outcome)
    \/ \E r \in BagToSet(pending), outcome \in Outcomes : SearchFetchDone(r, outcome)

-----------------------------------------------------------------------------
(* Pledge estimator: pledge_progress.js *)

DebounceMs == 300       \* the delay given to setTimeout
TickMs == 100           \* granularity of the model's clock
MaxTimers == 2          \* timers armed at once
MaxRequests == 2        \* estimate fetches in flight at once

Amount100 == <<"1", "0", "0">>
Amount200 == <<"2", "0", "0">>
AmountValues == {Blank, <<" ">>, Amount100, Amount200, <<" ", "2", "0", "0">>}

\* GET <estimate_url>?amount=<value>  ->  { ok, total_min, total_max }
ServerEstimate(amount) ==
    CASE amount = Amount100 -> [total_min |-> 105, total_max |-> 110]
      [] amount = Amount200 -> [total_min |-> 210, total_max |-> 220]
      [] OTHER -> [total_min |-> 0, total_max |-> 0]

\* `Estimated return: GBP${data.total_min}-GBP${data.total_max}`
EstimateText(data) == <<"Estimated return: ", data.total_min, "-", data.total_max>>

NoEstimate == <<>>

Min(a, b) == IF a < b THEN a ELSE b
Max(a, b) == IF a > b THEN a ELSE b

keepTimeout(armed, id) == armed

\* clearTimeout(id)
clearTimeout(armed, id) == {t \in armed : t.id # id}

FreshId(armed) ==
    CHOOSE id \in 1..(Cardinality(armed) + 1) : \A t \in armed : t.id # id

\* How an estimate fetch can end: { ok: true, ... }, a response without a
\* true ok, or no usable response
EstimateOutcomes == {"ok", "notok", "fail"}

PledgeInit ==
    /\ amountInput = Blank
    /\ timer = 0
    /\ timers = {}
    /\ requests = EmptyBag
    /\ estimate = NoEstimate
    /\ sinceInput = DebounceMs
    /\ burstFetches = 0
    /\ lastAmount = Blank
    /\ newest = "none"

\* The user edits the field: the input listener clears the timer it holds
\* and arms a new one
PledgeInput(v) ==
    /\ v # amountInput
    /\ amountInput' = v
    /\ LET cleared == clearTimeout(timers, timer)
           id == FreshId(cleared)
       IN  /\ Cardinality(cleared) < MaxTimers
           /\ timers' = cleared \cup {[id |-> id, left |-> DebounceMs]}
           /\ timer' = id
    /\ sinceInput' = 0
    /\ burstFetches' = IF sinceInput >= DebounceMs THEN 0 ELSE burstFetches
    /\ UNCHANGED <<requests, estimate, lastAmount, newest>>
    /\ UNCHANGED <<synVars, formVars, dragVars, toggleVars>>

\* Time passes; a timer that is due may still fire later
PledgeTick ==
    /\ sinceInput < DebounceMs \/ \E t \in timers : t.left > 0
    /\ timers' = {[t EXCEPT !.left = Max(0, t.left - TickMs)] : t \in timers}
    /\ sinceInput' = Min(DebounceMs, sinceInput + TickMs)
    /\ UNCHANGED <<amountInput, timer, requests, estimate, burstFetches,
                   lastAmount, newest>>
    /\ UNCHANGED <<synVars, formVars, dragVars, toggleVars>>

\* The callback going on to the fetch whatever the value
neverSkips(val) == FALSE

\* if (!val) return;
skipsFetch(val) == val = Blank

\* A due timer runs its callback up to the await of fetch
PledgeTimerFires(t) ==
    /\ t \in timers /\ t.left = 0
    /\ timers' = timers \ {t}
    /\ LET val == Trim(amountInput)
       IN  IF skipsFetch(val)
           THEN UNCHANGED <<requests, burstFetches, lastAmount, newest>>
           ELSE /\ BagCardinality(requests) < MaxRequests
                /\ requests' =
                       Supersede(requests, {"estimate"}) (+)
                       SetToBag({[kind |-> "estimate", amount |-> val,
                                  latest |-> TRUE]})
                /\ burstFetches' = Min(2, burstFetches + 1)
                /\ lastAmount' = val
                /\ newest' = "inflight"
    /\ UNCHANGED <<amountInput, timer, estimate, sinceInput>>
    /\ UNCHANGED <<synVars, formVars, dragVars, toggleVars>>

\* setEstimate on every response that parsed, whatever its ok flag
applyUnchecked(shown, r, outcome) ==
    IF outcome # "fail" THEN EstimateText(ServerEstimate(r.amount)) ELSE shown

\* setEstimate(id, text) after a response with data.ok
applyEstimate(shown, r, outcome) ==
    IF outcome = "ok" THEN EstimateText(ServerEstimate(r.amount)) ELSE shown

\* A fetch ends and the callback resumes
PledgeResponse(r, outcome) ==
    /\ r \in BagToSet(requests)
    /\ requests' = requests (-) SetToBag({r})
    /\ estimate' = applyEstimate(estimate, r, outcome)
    /\ newest' = IF r.latest THEN outcome ELSE newest
    /\ UNCHANGED <<amountInput, timer, timers, sinceInput, burstFetches,
                   lastAmount>>
    /\ UNCHANGED <<synVars, formVars, dragVars, toggleVars>>

PledgeNext ==
    \/ \E v \in AmountValues : PledgeInput(v)
    \/ PledgeTick
    \/ \E t \in timers : PledgeTimerFires(t)
    \/ \E r \in BagToSet(requests), outcome \in EstimateOutcomes :
           PledgeResponse(r, outcome)

-----------------------------------------------------------------------------
(* Drag to scroll: click_hold_drag_scroll.js, one element *)

DRAG_THRESHOLD == 6
MaxX == 14              \* largest pageX of the model's pointer
MaxScroll == 9          \* scrollWidth - clientWidth of the element

PointerXs == {0, DRAG_THRESHOLD, DRAG_THRESHOLD + 1, MaxX}
Buttons == {0, 2}       \* MouseEvent.button: primary, secondary

Abs(n) == IF n < 0 THEN 0 - n ELSE n

\* What assigning v to el.scrollLeft leaves there
Clamp(v) == Max(0, Min(MaxScroll, v))

overThresholdOrEqual(walk) == Abs(walk) >= DRAG_THRESHOLD

\* Math.abs(walk) > DRAG_THRESHOLD
overThreshold(walk) == Abs(walk) > DRAG_THRESHOLD

\* The gesture as an observer of the events sees it.  phase: "pressed" from
\* a primary press on the element to the release of the primary button;
\* exceeded: a mousemove of it was more than 6 px from the press position;
\* interrupted: the pointer left the element, or another button was
\* released, before the primary button was; dragged: the element carried
\* is-dragging during it; clicks: clicks handled since the press or, if
\* later, since the last mousemove that dragged the element; other:
\* another button went down on the element since the primary one was last up
NoGesture ==
    [phase |-> "idle", exceeded |-> FALSE, interrupted |-> FALSE,
     dragged |-> FALSE, clicks |-> 0, other |-> FALSE]

DragInit ==
    /\ isDown = FALSE /\ startX = 0 /\ startScrollLeft = 0
    /\ hasDragged = FALSE
    /\ scrollLeft \in {0, MaxScroll}
    /\ dragging = FALSE
    /\ clickResult = "none"
    /\ pageX = 0
    /\ lastEvent = "none"
    /\ gesture = NoGesture

keepFlagOnPress(flag) == flag

\* hasDragged = false of the mousedown listener
resetOnPress(flag) == FALSE

keepFlagOnClick(flag) == flag

\* hasDragged = false of the click listener
clearOnClick(flag) == FALSE

\* endDrag leaving the class on the element
keepClass(on) == on

\* el.classList.remove("is-dragging") of endDrag
removeClass(on) == FALSE

\* endDrag leaving isDown as it was
keepDownOnEnd(down) == down

\* isDown = false of endDrag
endDrag(down) == FALSE

\* The mousedown listener taking every button for the primary one
anyButton(button) == TRUE

\* e.button === 0, the test the mousedown listener returns on
isPrimary(button) == button = 0

\* mousedown on the element; the primary button goes down only when it is up
MouseDown(button, x) ==
    /\ button = 0 => gesture.phase # "pressed"
    /\ pageX' = x
    /\ lastEvent' = "mousedown"
    /\ IF ~isPrimary(button)
       THEN /\ UNCHANGED <<isDown, hasDragged, startX, startScrollLeft>>
            /\ gesture' = IF gesture.phase = "pressed" THEN gesture
                          ELSE [gesture EXCEPT !.other = TRUE]
       ELSE /\ isDown' = TRUE
            /\ hasDragged' = resetOnPress(hasDragged)
            /\ startX' = x
            /\ startScrollLeft' = scrollLeft
            /\ gesture' = [NoGesture EXCEPT !.phase = "pressed"]
    /\ UNCHANGED <<scrollLeft, dragging, clickResult>>
    /\ UNCHANGED <<synVars, formVars, pledgeVars, toggleVars>>

\* mousemove on the element
MouseMove(x) ==
    /\ x # pageX
    /\ pageX' = x
    /\ lastEvent' = "mousemove"
    /\ LET walk == x - startX
           drag == isDown /\ overThreshold(walk)
       IN  /\ hasDragged' = (hasDragged \/ drag)
           /\ dragging' = (dragging \/ drag)
           /\ scrollLeft' = IF drag THEN Clamp(startScrollLeft - walk)
                            ELSE scrollLeft
           /\ gesture' =
                  IF gesture.phase = "pressed"
                  THEN [gesture EXCEPT
                            !.exceeded = @ \/ Abs(x - startX) > 6,
                            !.dragged = @ \/ drag,
                            !.clicks = IF drag THEN 0 ELSE @]
                  ELSE gesture
    /\ UNCHANGED <<isDown, startX, startScrollLeft, clickResult>>
    /\ UNCHANGED <<synVars, formVars, pledgeVars, toggleVars>>

\* endDrag, as the window's mouseup listener: any button, anywhere
MouseUp(button) ==
    /\ lastEvent' = "mouseup"
    /\ isDown' = endDrag(isDown)
    /\ dragging' = removeClass(dragging)
    /\ gesture' = IF gesture.phase # "pressed" THEN gesture
                  ELSE IF button = 0 THEN [gesture EXCEPT !.phase = "released"]
                  ELSE [gesture EXCEPT !.interrupted = TRUE]
    /\ UNCHANGED <<startX, startScrollLeft, hasDragged, scrollLeft,
                   clickResult, pageX>>
    /\ UNCHANGED <<synVars, formVars, pledgeVars, toggleVars>>

\* endDrag, as the element's mouseleave listener
MouseLeave ==
    /\ lastEvent' = "mouseleave"
    /\ isDown' = endDrag(isDown)
    /\ dragging' = removeClass(dragging)
    /\ gesture' = IF gesture.phase = "pressed"
                  THEN [gesture EXCEPT !.interrupted = TRUE] ELSE gesture
    /\ UNCHANGED <<startX, startScrollLeft, hasDragged, scrollLeft,
                   clickResult, pageX>>
    /\ UNCHANGED <<synVars, formVars, pledgeVars, toggleVars>>

\* click on the element or inside it (capture phase): the click of a mouse
\* gesture, or one made from the keyboard, which can come at any time, also
\* while the primary button is held
Click ==
    /\ lastEvent' = "click"
    /\ clickResult' = IF hasDragged THEN "suppressed" ELSE "delivered"
    /\ hasDragged' = IF hasDragged THEN clearOnClick(hasDragged) ELSE hasDragged
    /\ gesture' = [gesture EXCEPT !.clicks = Min(2, @ + 1)]
    /\ UNCHANGED <<isDown, startX, startScrollLeft, scrollLeft, dragging, pageX>>
    /\ UNCHANGED <<synVars, formVars, pledgeVars, toggleVars>>

DragNext ==
    \/ \E button \in Buttons, x \in PointerXs : MouseDown(button, x)
    \/ \E x \in PointerXs : MouseMove(x)
    \/ \E button \in Buttons : MouseUp(button)
    \/ MouseLeave
    \/ Click

-----------------------------------------------------------------------------
(* Password toggles: login_register_toggle.js *)

MaxClicks == 3          \* clicks counted on one button

ToggleIds == {"id_password_login", "toggleLoginPassword",
              "id_password_register_1", "id_password_register_2",
              "toggleRegisterPasswords"}

\* What the template renders: password fields and "Show" labels
RenderedType == "password"
LoginShow == "Show"
LoginHide == "Hide"
RegShow == "Show passwords"
RegHide == "Hide passwords"

\* if (loginPw && loginBtn): the login listener is registered
LoginBound == {"id_password_login", "toggleLoginPassword"} \subseteq present

\* if (regPw1 && regPw2 && regBtn): the register listener is registered
RegBound ==
    {"id_password_register_1", "id_password_register_2",
     "toggleRegisterPasswords"} \subseteq present

\* getAttribute("type") === "password"
isPw(type) == type = "password"

\* isPw ? "text" : "password"
nextType(type) == IF isPw(type) THEN "text" ELSE "password"

\* The label chosen the other way round
swappedLabel(type, hide, show) == IF isPw(type) THEN show ELSE hide

\* isPw ? "Hide..." : "Show..."
nextLabel(type, hide, show) == IF isPw(type) THEN hide ELSE show

ToggleInit ==
    /\ present \in SUBSET ToggleIds
    /\ loginType = RenderedType /\ loginLabel = LoginShow
    /\ regType1 = RenderedType /\ regType2 = RenderedType
    /\ regLabel = RegShow
    /\ loginClicks = 0 /\ regClicks = 0

ToggleIdle ==
    /\ present = ToggleIds
    /\ loginType = RenderedType /\ loginLabel = LoginShow
    /\ regType1 = RenderedType /\ regType2 = RenderedType
    /\ regLabel = RegShow
    /\ loginClicks = 0 /\ regClicks = 0

\* click on #toggleLoginPassword
LoginToggleClick ==
    /\ "toggleLoginPassword" \in present
    /\ loginClicks < MaxClicks
    /\ loginClicks' = loginClicks + 1
    /\ IF LoginBound
       THEN /\ loginType' = nextType(loginType)
            /\ loginLabel' = nextLabel(loginType, LoginHide, LoginShow)
       ELSE UNCHANGED <<loginType, loginLabel>>
    /\ UNCHANGED <<present, regType1, regType2, regLabel, regClicks>>
    /\ UNCHANGED <<synVars, formVars, pledgeVars, dragVars>>

\* click on #toggleRegisterPasswords
RegToggleClick ==
    /\ "toggleRegisterPasswords" \in present
    /\ regClicks < MaxClicks
    /\ regClicks' = regClicks + 1
    /\ IF RegBound
       THEN /\ regType1' = nextType(regType1)
            /\ regType2' = nextType(regType1)
            /\ regLabel' = nextLabel(regType1, RegHide, RegShow)
       ELSE UNCHANGED <<regType1, regType2, regLabel>>
    /\ UNCHANGED <<present, loginType, loginLabel, loginClicks>>
    /\ UNCHANGED <<synVars, formVars, pledgeVars, dragVars>>

ToggleNext == LoginToggleClick \/ RegToggleClick

-----------------------------------------------------------------------------
(* Specifications: one per page, the other pages' state standing still *)

DragIdle ==
    /\ isDown = FALSE /\ startX = 0 /\ startScrollLeft = 0
    /\ hasDragged = FALSE /\ scrollLeft = 0 /\ dragging = FALSE
    /\ clickResult = "none" /\ pageX = 0 /\ lastEvent = "none"
    /\ gesture = NoGesture

Init == SynIdle /\ FormIdle /\ PledgeInit /\ DragIdle /\ ToggleIdle

InitSync == SynInit /\ FormIdle /\ PledgeInit /\ DragIdle /\ ToggleIdle

InitForms == SynIdle /\ FormInit /\ PledgeInit /\ DragIdle /\ ToggleIdle

InitDrag == SynIdle /\ FormIdle /\ PledgeInit /\ DragInit /\ ToggleIdle

InitToggle == SynIdle /\ FormIdle /\ PledgeInit /\ DragIdle /\ ToggleInit

SpecSync == InitSync /\ [][SynRun]_vars

SpecForms == InitForms /\ [][FormNext]_vars

SpecPledge == Init /\ [][PledgeNext]_vars

SpecDrag == InitDrag /\ [][DragNext]_vars

SpecToggle == InitToggle /\ [][ToggleNext]_vars

Next == SynRun \/ FormNext \/ PledgeNext \/ DragNext \/ ToggleNext

Spec == Init /\ [][Next]_vars

-----------------------------------------------------------------------------
(* Claims *)

GroupOf(k) ==
    CASE k = 1 -> {"#id_project_duration_days"}
      [] k = 2 -> {"#id_source_use", "#id_target_use"}
      [] k = 3 -> {"#id_funding_band", "#id_return_type", "#id_return_band",
                   "#id_duration_days"}
      [] k = 4 -> {"#id_country", "#id_county", "#id_postcode_prefix"}

NonBlank(v) == v # Absent /\ \E i \in DOMAIN v : v[i] # " "

FilesIn(input) == IF input = NoInput THEN 0 ELSE input.n

\* C2: after sync(), step k (k = 1..4) is shown complete iff every selector
\* of its requirement group resolves to an existing element whose trimmed
\* value is non-blank, and step 5 iff the image and document inputs hold
\* more than zero files together, an absent input counting as zero.
C2_StepsMatchFields ==
    synDone =>
        /\ \A k \in 1..4 :
              /\ Complete(synUi.stepper[k]) <=>
                     \A s \in GroupOf(k) : NonBlank(synDom[s])
              /\ Complete(synUi.cards[k]) <=> Complete(synUi.stepper[k])
        /\ Complete(synUi.stepper[5]) <=>
               FilesIn(synFiles.img) + FilesIn(synFiles.doc) > 0
        /\ Complete(synUi.cards[5]) <=> Complete(synUi.stepper[5])

\* sync() ran on a page with a whitespace-only field, an absent field and an
\* absent file input, with step 1 complete and step 5 complete
C2_Witness ==
    /\ synDone
    /\ \E s \in Watched : synDom[s] = <<" ">>
    /\ \E s \in Watched : synDom[s] = Absent
    /\ synFiles.img = NoInput
    /\ Complete(synUi.stepper[1])
    /\ Complete(synUi.stepper[5])
    /\ ~Complete(synUi.stepper[6])


\* C1: on the edit-listing page, between handlers, the activation button is
\* enabled iff steps 1-5 are all complete (every watched field non-blank and
\* at least one file selected, which is also what indicators 1-5 show), and
\* the step-6 indicator shows complete exactly when the button is enabled.
C1_ButtonIffStepsComplete ==
    (page = "edit" /\ loaded) =>
        /\ ~ui.disabled <=>
               /\ \A s \in Watched : NonBlank(DomOf(Cur)[s])
               /\ FilesIn(files.img) + FilesIn(files.doc) > 0
        /\ ~ui.disabled <=> \A k \in 1..5 : Complete(ui.stepper[k])
        /\ Complete(ui.stepper[6]) <=> ~ui.disabled
        /\ Complete(ui.cards[6]) <=> ~ui.disabled

\* The button is enabled on a page whose county and outcode came from
\* lookups, with no lookup left in flight
C1_Witness ==
    /\ page = "edit" /\ loaded
    /\ ~ui.disabled
    /\ Value(county) = Kent /\ Value(outcode) = CT
    /\ last = [county |-> "loaded", outcode |-> "loaded"]
    /\ pending = EmptyBag

\* C3 (as claimed): once the country selector is blank, the county and the
\* outcode selector hold only their placeholder, also after the fetches
\* issued before the clear have completed; on both pages.
C3_BlankCountryMeansPlaceholders ==
    (loaded /\ country = Blank) =>
        PlaceholderOnly(county) /\ PlaceholderOnly(outcode)

\* C6 (as claimed): when the latest load of a dependent selector was skipped
\* or failed, that selector holds only its placeholder, also after a fetch
\* issued for an earlier selection has completed; on both pages.
C6_SkippedOrFailedLeavesPlaceholder ==
    loaded =>
        /\ last.county \in {"skipped", "failed"} => PlaceholderOnly(county)
        /\ last.outcode \in {"skipped", "failed"} => PlaceholderOnly(outcode)

\* The response of the hydrate's counties fetch arrives and holds the saved
\* county r.selected
HydrateCountiesArrive(r) ==
    /\ r.kind = "counties" /\ r.selected # Blank
    /\ r.selected \in Range(ServerCounties(r.key))
    /\ EditFetchDone(r, "ok") \/ SearchFetchDone(r, "ok")

\* The response of the outcodes fetch the hydrate chained arrives
HydrateOutcodesArrive(r, outcome) ==
    /\ r.kind = "outcodes" /\ r.chained /\ outcome # "fail"
    /\ EditFetchDone(r, outcome) \/ SearchFetchDone(r, outcome)

OutcodeFetchIssued(key) ==
    \E q \in BagToSet(pending') :
        q.kind = "outcodes" /\ q.key = key /\ q.selected = initial.outcode

\* The response moves the selection to the saved outcode only if it holds it
SavedOutcodeOnlyIfReturned ==
    \A r \in BagToSet(pending), outcome \in Outcomes :
        HydrateOutcodesArrive(r, outcome) =>
            ((r.selected # Blank /\ outcode'.sel # outcode.sel
                  /\ Value(outcode') = r.selected)
                 => r.selected \in Range(Response(r, outcome)))

\* C7 (as claimed): when the hydrate's counties response holds the saved
\* county, the county selector ends with it selected and an outcode fetch
\* for it is issued; the saved outcode is selected afterwards only if the
\* outcodes response holds it.
C7_HydrateSelectsAndCascades ==
    [][ /\ \A r \in BagToSet(pending) :
              HydrateCountiesArrive(r) =>
                  Value(county') = r.selected /\ OutcodeFetchIssued(r.selected)
        /\ SavedOutcodeOnlyIfReturned ]_vars

\* C7 (amended): the same, the outcode fetch being issued when the outcodes
\* endpoint is configured.
C7_HydrateSelectsAndCascadesIfEndpoint ==
    [][ /\ \A r \in BagToSet(pending) :
              HydrateCountiesArrive(r) =>
                  /\ Value(county') = r.selected
                  /\ urls.outcodes => OutcodeFetchIssued(r.selected)
        /\ SavedOutcodeOnlyIfReturned ]_vars

\* The hydrate ran to its end: saved county and saved outcode are selected
\* from the two responses
C7_Witness ==
    /\ loaded /\ initial.county = Kent /\ initial.outcode = CT
    /\ Value(county) = Kent /\ Value(outcode) = CT
    /\ last = [county |-> "loaded", outcode |-> "loaded"]
    /\ pending = EmptyBag


\* C4 (as claimed): once every issued estimate request has completed, the
\* estimate shown is the one returned for the request issued last, whatever
\* the order of the responses.
C4_NewestEstimateShown ==
    (requests = EmptyBag /\ newest = "ok") =>
        estimate = EstimateText(ServerEstimate(lastAmount))

\* C5: in a burst of input events less than 300 ms apart no fetch is issued
\* before 300 ms have passed without input; the one fetch then issued
\* carries the field's trimmed value of that moment, the last one entered;
\* and once the burst's timer has run with a non-blank value exactly one
\* fetch has been issued for the burst.
C5_OneFetchPerBurst ==
    /\ burstFetches <= 1
    /\ burstFetches = 1 =>
           /\ sinceInput >= 300
           /\ lastAmount = Trim(amountInput)
    /\ (timers = {} /\ timer # 0 /\ Trim(amountInput) # Blank) =>
           burstFetches = 1

\* A burst "100", then "200 " within 300 ms, has ended in one fetch, for 200
C5_Witness ==
    /\ amountInput = <<" ", "2", "0", "0">>
    /\ burstFetches = 1
    /\ lastAmount = Amount200
    /\ timers = {}
    /\ \E r \in BagToSet(requests) : r.amount = Amount200 /\ r.latest

\* The click follows a gesture: press, moves, release, and then the click
ClickAfterGesture == gesture.phase = "released" /\ gesture.clicks = 0 /\ Click

C9_SuppressedExactlyOnce ==
    [][ /\ Click =>
               /\ clickResult' = "suppressed" <=>
                      (gesture.dragged /\ gesture.clicks = 0)
               /\ ~hasDragged'
        /\ (Click /\ lastEvent = "click") => clickResult' = "delivered"
      ]_vars

\* A second click, right after the suppressed click of a drag, was delivered
C9_Witness ==
    /\ lastEvent = "click" /\ clickResult = "delivered"
    /\ gesture.dragged /\ gesture.clicks = 2

\* C10 (as claimed): while dragging, after every mousemove the scroll offset
\* is the offset at press minus the pointer's displacement (as far as the
\* element can scroll), also when the pointer is back within 6 px.
C10_ScrollFollowsPointer ==
    (isDown /\ dragging /\ lastEvent = "mousemove") =>
        scrollLeft = Clamp(startScrollLeft - (pageX - startX))

\* The primary button was released, or the gesture was interrupted, and no
\* primary press followed (also: no press was made yet)
NotPressed == gesture.phase # "pressed" \/ gesture.interrupted

\* C11: a mouseup (any button, anywhere) or a mouseleave removes is-dragging,
\* and every mousemove that follows before a new primary press leaves the
\* scroll offset and the suppression flag as they were and adds no class.
C11_ReleaseReturnsToIdle ==
    [][ /\ ((\E b \in Buttons : MouseUp(b)) \/ MouseLeave) => ~dragging'
        /\ (NotPressed /\ MouseMove(pageX')) =>
               /\ scrollLeft' = scrollLeft
               /\ hasDragged' = hasDragged
               /\ ~dragging'
      ]_vars

\* After a drag and its release the pointer moved more than 6 px away from
\* the press position: no class, the flag still set, the offset not following
C11_Witness ==
    /\ lastEvent = "mousemove"
    /\ gesture.phase = "released" /\ gesture.dragged
    /\ Abs(pageX - startX) > DRAG_THRESHOLD
    /\ ~dragging /\ hasDragged
    /\ scrollLeft # Clamp(startScrollLeft - (pageX - startX))

\* C12: between handlers of the edit-listing page the indicators, messages
\* and button are what one sync() on the freshly rendered page would give
\* for the current fields and files, whatever calls came before (change,
\* input, the hook, in any order), and one more sync() changes nothing.
C12_SyncIdempotentAndStateless ==
    (page = "edit" /\ loaded) =>
        /\ ui = sync(RenderedUi, DomOf(Cur), files)
        /\ sync(ui, DomOf(Cur), files) = ui

\* The page went from incomplete (the render at load, with the lookups in
\* flight) to complete and back to incomplete by a blanked field
C12_Witness ==
    /\ page = "edit" /\ loaded
    /\ Value(county) = Kent /\ Value(outcode) = CT
    /\ FilesIn(files.img) + FilesIn(files.doc) > 0
    /\ \E f \in EditedFields : fields[f] = Blank
    /\ ui.disabled /\ ui.msg6 = Msg6Steps
    /\ Complete(ui.stepper[4]) /\ Complete(ui.stepper[5])

\* C13: whenever a handler of the edit-listing page returns to the event
\* loop, sync() has run after the last change the cascade made to the
\* options or the value of the county or the outcode selector; in the
\* DOMContentLoaded handler too, where the hook is not yet installed.
C13_SyncFollowsCascadeChange ==
    page = "edit" => ~unsynced

\* The hydrate reset both selectors before the hook existed, the county
\* response then repopulated and reselected, and the outcode fetch is out
C13_Witness ==
    /\ page = "edit" /\ loaded /\ ~unsynced
    /\ initial.county = Kent /\ Value(county) = Kent
    /\ last = [county |-> "loaded", outcode |-> "inflight"]
    /\ ui = sync(RenderedUi, DomOf(Cur), files)

\* A selector right after its repopulation with items, wanted being the
\* previously known value: the placeholder and then the items; wanted is
\* the value only if it is among the items; else the placeholder is selected
Repopulated(select, items, wanted) ==
    /\ select.opts = <<Blank>> \o items
    /\ (wanted # Blank /\ Value(select) = wanted) => wanted \in Range(items)
    /\ wanted \notin Range(items) => select.sel = 1

\* C14 (as claimed): every repopulation of the county or the outcode
\* selector from a response leaves it with exactly the placeholder followed
\* by the fetched options, the previously known value selected only if it
\* is among them and the placeholder selected otherwise; on both pages.
C14_RepopulationResetsAndReselects ==
    [][ \A r \in BagToSet(pending), outcome \in {"ok", "empty"} :
            (EditFetchDone(r, outcome) \/ SearchFetchDone(r, outcome)) =>
                IF r.kind = "counties"
                THEN Repopulated(county', Response(r, outcome), r.selected)
                ELSE Repopulated(outcode', Response(r, outcome), r.selected)
      ]_vars

\* C15: when a debounce timer fires while the field's trimmed value is
\* blank, no request is issued and the estimate shown stays as it was.
C15_BlankInputIssuesNoRequest ==
    [][ \A t \in timers :
            (PledgeTimerFires(t) /\ Trim(amountInput) = Blank) =>
                requests' = requests /\ estimate' = estimate
      ]_vars

\* An estimate is on display, the field was then set to a space, and the
\* timer of that input has fired without a fetch
C15_Witness ==
    /\ amountInput = <<" ">>
    /\ timer # 0 /\ timers = {}
    /\ sinceInput >= DebounceMs /\ burstFetches = 0
    /\ requests = EmptyBag
    /\ estimate = EstimateText(ServerEstimate(Amount100))

\* C16: a response whose ok flag is absent or false leaves the estimate
\* shown exactly as it was before the response.
C16_NotOkResponseIgnored ==
    [][ \A r \in BagToSet(requests) :
            PledgeResponse(r, "notok") => estimate' = estimate
      ]_vars

\* The estimate for 100 is on display after the request for 200, the one
\* issued last, was answered without a true ok
C16_Witness ==
    /\ lastAmount = Amount200 /\ newest = "notok"
    /\ requests = EmptyBag
    /\ estimate = EstimateText(ServerEstimate(Amount100))

\* C17: once a working toggle button has been clicked, its field is in text
\* mode iff the button shows its "Hide" label (and in password mode iff it
\* shows "Show"); a click flips the mode and the label together; and after
\* a click on the register toggle both password fields have the same mode.
C17_ToggleLockstep ==
    /\ (LoginBound /\ loginClicks >= 1) =>
           /\ loginType = "text" <=> loginLabel = LoginHide
           /\ loginType = "password" <=> loginLabel = LoginShow
           /\ loginType = (IF loginClicks % 2 = 1 THEN "text" ELSE "password")
    /\ (RegBound /\ regClicks >= 1) =>
           /\ regType1 = "text" <=> regLabel = RegHide
           /\ regType1 = "password" <=> regLabel = RegShow
           /\ regType1 = (IF regClicks % 2 = 1 THEN "text" ELSE "password")
           /\ regType2 = regType1

\* Two clicks on the login toggle (visible, hidden again) and one on the
\* register toggle (both fields visible)
C17_Witness ==
    /\ LoginBound /\ RegBound
    /\ loginClicks = 2 /\ loginType = "password" /\ loginLabel = LoginShow
    /\ regClicks = 1 /\ regType1 = "text" /\ regType2 = "text"
    /\ regLabel = RegHide

\* C18 (as claimed): on the edit-listing page with no fetch in flight, the
\* county selector's options after the placeholder are none or exactly the
\* counties the endpoint returns for the country now selected (none when
\* the country is blank), and step 4 is not shown complete with a county
\* that is not one of that country's.
C18_CountyOptionsMatchCountry ==
    (page = "edit" /\ loaded /\ pending = EmptyBag) =>
        /\ county.opts[1] = Blank
        /\ Tail(county.opts) \in {<<>>, ServerCounties(Trim(country))}
        /\ country = Blank => PlaceholderOnly(county)
        /\ Complete(ui.stepper[4]) =>
               Value(county) \in Range(ServerCounties(Trim(country)))

\* C19 (as claimed): whenever the outcode selector holds options besides
\* its placeholder, the county selector has a non-blank selected value and
\* those options are the outcodes returned for that county; on both pages,
\* the hydrate with a saved county the country does not have included.
C19_OutcodesOnlyForSelectedCounty ==
    (loaded /\ ~PlaceholderOnly(outcode)) =>
        /\ Value(county) # Blank
        /\ Tail(outcode.opts) = ServerOutcodes(Value(county))

\* C20 (as claimed): the element carries is-dragging only while the primary
\* button is held from a press on it (isDown, no release or leave since the
\* press) and the gesture has gone beyond the threshold (hasDragged); it
\* never carries the class in the idle state.
C20_ClassOnlyWhileDragging ==
    /\ dragging =>
           /\ isDown /\ hasDragged
           /\ gesture.phase = "pressed" /\ ~gesture.interrupted
           /\ gesture.exceeded
    /\ ~isDown => ~dragging

\* C21: a mousedown with a button other than the primary one leaves isDown,
\* the captured start position and scroll offset, the suppression flag, the
\* class and the scroll offset as they were; made in the idle state it
\* leaves the element idle, and no mousemove that follows before a primary
\* press changes the scroll offset or adds the class.
C21_OnlyPrimaryPressStartsGesture ==
    [][ /\ (\E x \in PointerXs : MouseDown(2, x)) =>
               /\ UNCHANGED <<isDown, startX, startScrollLeft, hasDragged>>
               /\ UNCHANGED <<scrollLeft, dragging>>
        /\ (gesture.other /\ NotPressed)' => ~isDown'
        /\ (gesture.other /\ NotPressed /\ MouseMove(pageX')) =>
               scrollLeft' = scrollLeft /\ ~dragging' /\ hasDragged' = hasDragged
      ]_vars

\* On a fresh element the secondary button went down at 0 and the pointer
\* then moved to 14: nothing was captured, nothing scrolled
C21_Witness ==
    /\ gesture.phase = "idle" /\ gesture.other
    /\ lastEvent = "mousemove" /\ pageX = MaxX
    /\ ~isDown /\ ~dragging /\ ~hasDragged
    /\ startX = 0 /\ startScrollLeft = 0 /\ scrollLeft = MaxScroll

=============================================================================
